---- MODULE Spec2Model ----
(***************************************************************************)
(* Model of the technical-indicator code of the stock dashboard            *)
(* (TechnicalIndicators.tsx: calculateSMA, calculateEMA, calculateRSI,     *)
(* calculateKDJ and the report assembled by the TechnicalIndicators        *)
(* component), of the request handling, the stream reader and the         *)
(* messages of its chat page (ChatPage.tsx: handleSend) and of the watch   *)
(* list of its stock page (StockPage.tsx).                                 *)
(*                                                                         *)
(* Numbers.  A JavaScript number is modelled as a record                   *)
(*   [k |-> "num", n |-> numerator, d |-> denominator]   (d > 0, reduced)  *)
(* or one of the non-finite values NaN, +Infinity, -Infinity; null is a    *)
(* separate value.  Arithmetic on finite numbers is exact rational         *)
(* arithmetic: the rounding of IEEE-754 doubles and the sign of zero are   *)
(* not modelled, so every equality below is an equality of the exact       *)
(* values the formulas denote.  Division by zero, NaN propagation, the     *)
(* coercion of null to 0 and JavaScript truthiness are modelled.           *)
(***************************************************************************)
EXTENDS Integers, Sequences, FiniteSets, TLC

\* ------------------------------------------------------------------ numbers

RECURSIVE Gcd(_, _)
Gcd(a, b) == IF b = 0 THEN a ELSE Gcd(b, a % b)

Abs(x) == IF x < 0 THEN -x ELSE x

Sgn(x) == IF x < 0 THEN -1 ELSE IF x > 0 THEN 1 ELSE 0

\* the finite number n/d, reduced, with a positive denominator (d # 0)
Rat(n, d) ==
  LET g == Gcd(Abs(n), Abs(d))
  IN  [k |-> "num", n |-> Sgn(d) * (n \div g), d |-> Abs(d) \div g]

Num(i) == [k |-> "num", n |-> i, d |-> 1]

Null == [k |-> "null", n |-> 0, d |-> 1]

NaN == [k |-> "nan", n |-> 0, d |-> 1]

\* +Infinity (s = 1) or -Infinity (s = -1)
Inf(s) == [k |-> "inf", n |-> s, d |-> 1]

IsNum(x) == x.k = "num"

\* ToNumber: null becomes 0, every number is itself
ToNumber(x) == IF x.k = "null" THEN Num(0) ELSE x

\* the sign of a number that is not NaN
SignOf(x) == Sgn(x.n)

Neg(a) ==
  LET x == ToNumber(a)
  IN  IF x.k = "nan" THEN NaN
      ELSE IF x.k = "inf" THEN Inf(-x.n)
      ELSE Rat(-x.n, x.d)

\* a + b
Add(a, b) ==
  LET x == ToNumber(a)
      y == ToNumber(b)
  IN  IF x.k = "nan" \/ y.k = "nan" THEN NaN
      ELSE IF x.k = "inf" /\ y.k = "inf" THEN (IF x.n = y.n THEN x ELSE NaN)
      ELSE IF x.k = "inf" THEN x
      ELSE IF y.k = "inf" THEN y
      ELSE Rat(x.n * y.d + y.n * x.d, x.d * y.d)

\* a - b
Sub(a, b) == Add(a, Neg(b))

\* a * b
Mul(a, b) ==
  LET x == ToNumber(a)
      y == ToNumber(b)
  IN  IF x.k = "nan" \/ y.k = "nan" THEN NaN
      ELSE IF x.k = "inf" \/ y.k = "inf"
             THEN (IF SignOf(x) = 0 \/ SignOf(y) = 0 THEN NaN
                   ELSE Inf(SignOf(x) * SignOf(y)))
      ELSE Rat(x.n * y.n, x.d * y.d)

\* a / b: 0/0 is NaN, x/0 is an infinity
Div(a, b) ==
  LET x == ToNumber(a)
      y == ToNumber(b)
  IN  IF x.k = "nan" \/ y.k = "nan" THEN NaN
      ELSE IF x.k = "inf" /\ y.k = "inf" THEN NaN
      ELSE IF x.k = "inf" THEN Inf(IF SignOf(y) < 0 THEN -x.n ELSE x.n)
      ELSE IF y.k = "inf" THEN Num(0)
      ELSE IF y.n = 0 THEN (IF x.n = 0 THEN NaN ELSE Inf(SignOf(x)))
      ELSE Rat(x.n * y.d, x.d * y.n)

\* a < b (false when either side is NaN)
Lt(a, b) ==
  LET x == ToNumber(a)
      y == ToNumber(b)
  IN  IF x.k = "nan" \/ y.k = "nan" THEN FALSE
      ELSE IF x.k = "inf" THEN x.n < 0 /\ ~(y.k = "inf" /\ y.n < 0)
      ELSE IF y.k = "inf" THEN y.n > 0
      ELSE x.n * y.d < y.n * x.d

\* a > b
Gt(a, b) == Lt(b, a)

\* a === b on numbers (NaN equals nothing)
StrictEq(a, b) == a.k # "nan" /\ b.k # "nan" /\ a = b

\* JavaScript truthiness of a number or null: null, 0 and NaN are falsy
Truthy(x) == ~(x.k = "null" \/ x.k = "nan" \/ (x.k = "num" /\ x.n = 0))

\* a || b
OrElse(a, b) == IF Truthy(a) THEN a ELSE b

\* Math.max, Math.min on finite numbers
MathMax(a, b) == IF Gt(b, a) THEN b ELSE a

MathMin(a, b) == IF Lt(b, a) THEN b ELSE a

\* ------------------------------------------------------------------ series

\* a K-line bar: the fields the indicator functions read
Bar(h, l, c) == [high |-> Num(h), low |-> Num(l), close |-> Num(c)]

\* data[i] with the 0-based index of the source
At(s, i) == s[i + 1]

Closes(data) == [i \in 1..Len(data) |-> data[i].close]

\* ------------------------------------------------------------- calculateSMA

\* Every loop below is an operator on the values the loop carries, gathered
\* in a record: one application is one test of the loop condition, followed
\* by the body and the next test, or by the exit.

\* for (let j = 0; j < period; j++) sum += data[i - j].close
RECURSIVE SMASum(_, _, _, _)
SMASum(data, period, i, st) ==
  IF st.j < period
    THEN SMASum(data, period, i,
                [j |-> st.j + 1, sum |-> Add(st.sum, At(data, i - st.j).close)])
    ELSE st.sum

\* calculateSMA averaging the bars available when the window is not full
calculateSMA_PartialWindow(data, period) ==
  [i1 \in 1..Len(data) |->
     LET i == i1 - 1
         n == IF i < period - 1 THEN i + 1 ELSE period
     IN  Div(SMASum(data, n, i, [j |-> 0, sum |-> Num(0)]), Num(n))]

\* calculateSMA summing one bar fewer than it divides by
calculateSMA_ShortSum(data, period) ==
  [i1 \in 1..Len(data) |->
     LET i == i1 - 1
     IN  IF i < period - 1 THEN Null
         ELSE Div(SMASum(data, period - 1, i, [j |-> 0, sum |-> Num(0)]), Num(period))]

\* calculateSMA with the first full window reported one bar late
calculateSMA_LateWindow(data, period) ==
  [i1 \in 1..Len(data) |->
     LET i == i1 - 1
     IN  IF i < period THEN Null
         ELSE Div(SMASum(data, period, i, [j |-> 0, sum |-> Num(0)]), Num(period))]

calculateSMA(data, period) ==
  [i1 \in 1..Len(data) |->
     LET i == i1 - 1
     IN  IF i < period - 1 THEN Null
         ELSE Div(SMASum(data, period, i, [j |-> 0, sum |-> Num(0)]), Num(period))]

\* ------------------------------------------------------------- calculateEMA

\* for (let j = 0; j < period; j++) sum += values[j]
RECURSIVE EMASeedSum(_, _, _)
EMASeedSum(values, period, st) ==
  IF st.j < period
    THEN EMASeedSum(values, period,
                    [j |-> st.j + 1, sum |-> Add(st.sum, At(values, st.j))])
    ELSE st.sum

\* for (let i = 0; i < values.length; i++), carrying i, ema and result
RECURSIVE EMALoop(_, _, _, _)
EMALoop(values, period, multiplier, st) ==
  IF st.i < Len(values)
    THEN IF st.i < period - 1
           THEN EMALoop(values, period, multiplier,
                        [i |-> st.i + 1, ema |-> st.ema, result |-> Append(st.result, Null)])
         ELSE IF st.i = period - 1
           THEN LET seed == Div(EMASeedSum(values, period, [j |-> 0, sum |-> Num(0)]),
                                Num(period))
                IN  EMALoop(values, period, multiplier,
                            [i |-> st.i + 1, ema |-> seed, result |-> Append(st.result, seed)])
         ELSE LET currentEma == st.ema
                  next == Add(Mul(Sub(At(values, st.i), currentEma), multiplier), currentEma)
              IN  EMALoop(values, period, multiplier,
                          [i |-> st.i + 1, ema |-> next, result |-> Append(st.result, next)])
    ELSE st.result

\* calculateEMA with the smoothing factor 2/period
calculateEMA_WrongFactor(values, period) ==
  EMALoop(values, period, Div(Num(2), Num(period)),
          [i |-> 0, ema |-> Null, result |-> <<>>])

calculateEMA(values, period) ==
  EMALoop(values, period, Div(Num(2), Num(period + 1)),
          [i |-> 0, ema |-> Null, result |-> <<>>])

\* ------------------------------------------------------------- calculateRSI

\* the default value of calculateRSI's period parameter
RSIDefaultPeriod == 14

\* RSIWindow adding the negative changes to losses instead of subtracting them
RECURSIVE RSIWindow_SignSlip(_, _, _, _)
RSIWindow_SignSlip(changes, period, i, st) ==
  IF st.j <= period
    THEN LET c == At(changes, i - st.j + 1)
         IN  IF Gt(c, Num(0))
               THEN RSIWindow_SignSlip(changes, period, i,
                      [j |-> st.j + 1, gains |-> Add(st.gains, c), losses |-> st.losses])
               ELSE RSIWindow_SignSlip(changes, period, i,
                      [j |-> st.j + 1, gains |-> st.gains, losses |-> Add(st.losses, c)])
    ELSE st

\* for (let j = 1; j <= period; j++): gains and losses over changes[i-j+1]
RECURSIVE RSIWindow(_, _, _, _)
RSIWindow(changes, period, i, st) ==
  IF st.j <= period
    THEN LET c == At(changes, i - st.j + 1)
         IN  IF Gt(c, Num(0))
               THEN RSIWindow(changes, period, i,
                      [j |-> st.j + 1, gains |-> Add(st.gains, c), losses |-> st.losses])
               ELSE RSIWindow(changes, period, i,
                      [j |-> st.j + 1, gains |-> st.gains, losses |-> Sub(st.losses, c)])
    ELSE st

\* RSIValue answering the neutral 50 for a window without any change
RSIValue_FlatIsNeutral(changes, period, i) ==
  LET w == RSIWindow(changes, period, i, [j |-> 1, gains |-> Num(0), losses |-> Num(0)])
      avgGain == Div(w.gains, Num(period))
      avgLoss == Div(w.losses, Num(period))
  IN  IF StrictEq(avgLoss, Num(0))
        THEN (IF StrictEq(avgGain, Num(0)) THEN Num(50) ELSE Num(100))
      ELSE LET rs == Div(avgGain, avgLoss)
           IN  Sub(Num(100), Div(Num(100), Add(Num(1), rs)))

\* RSIValue over a window of period + 1 changes
RSIValue_WideWindow(changes, period, i) ==
  LET w == RSIWindow(changes, period + 1, i, [j |-> 1, gains |-> Num(0), losses |-> Num(0)])
      avgGain == Div(w.gains, Num(period))
      avgLoss == Div(w.losses, Num(period))
  IN  IF StrictEq(avgLoss, Num(0)) THEN Num(100)
      ELSE LET rs == Div(avgGain, avgLoss)
           IN  Sub(Num(100), Div(Num(100), Add(Num(1), rs)))

\* the value pushed at an index i >= period, i >= 1
RSIValue(changes, period, i) ==
  LET w == RSIWindow(changes, period, i, [j |-> 1, gains |-> Num(0), losses |-> Num(0)])
      avgGain == Div(w.gains, Num(period))
      avgLoss == Div(w.losses, Num(period))
  IN  IF StrictEq(avgLoss, Num(0)) THEN Num(100)
      ELSE LET rs == Div(avgGain, avgLoss)
           IN  Sub(Num(100), Div(Num(100), Add(Num(1), rs)))

\* for (let i = 0; i < data.length; i++), carrying i, changes and result
RECURSIVE RSILoop(_, _, _)
RSILoop(data, period, st) ==
  IF st.i < Len(data)
    THEN IF st.i = 0
           THEN RSILoop(data, period,
                        [i |-> 1, changes |-> Append(st.changes, Num(0)),
                         result |-> Append(st.result, Null)])
           ELSE LET ch == Append(st.changes,
                                 Sub(At(data, st.i).close, At(data, st.i - 1).close))
                IN  IF st.i < period
                      THEN RSILoop(data, period,
                                   [i |-> st.i + 1, changes |-> ch,
                                    result |-> Append(st.result, Null)])
                      ELSE RSILoop(data, period,
                                   [i |-> st.i + 1, changes |-> ch,
                                    result |-> Append(st.result, RSIValue(ch, period, st.i))])
    ELSE st.result

calculateRSI(data, period) ==
  RSILoop(data, period, [i |-> 0, changes |-> <<>>, result |-> <<>>])

\* ------------------------------------------------------------- calculateKDJ

\* the default value of calculateKDJ's period parameter
KDJDefaultPeriod == 9

\* for (let j = 1; j < period; j++): the window's highest high and lowest low
RECURSIVE KDJWindow(_, _, _, _)
KDJWindow(data, period, i, st) ==
  IF st.j < period
    THEN KDJWindow(data, period, i,
                   [j |-> st.j + 1,
                    high |-> MathMax(st.high, At(data, i - st.j).high),
                    low |-> MathMin(st.low, At(data, i - st.j).low)])
    ELSE st

\* KDJRsv without the guard for a window of zero range
KDJRsv_NoFlatGuard(data, period, i) ==
  LET w == KDJWindow(data, period, i,
                     [j |-> 1, high |-> At(data, i).high, low |-> At(data, i).low])
  IN  Mul(Div(Sub(At(data, i).close, w.low), Sub(w.high, w.low)), Num(100))

\* const rsv = high === low ? 50 : ((data[i].close - low) / (high - low)) * 100
KDJRsv(data, period, i) ==
  LET w == KDJWindow(data, period, i,
                     [j |-> 1, high |-> At(data, i).high, low |-> At(data, i).low])
  IN  IF StrictEq(w.high, w.low) THEN Num(50)
      ELSE Mul(Div(Sub(At(data, i).close, w.low), Sub(w.high, w.low)), Num(100))

\* PrevOr50 seeding the recurrence with 0 instead of 50 when there is no row i-1
PrevOr50_ZeroSeed(result, i, f) ==
  IF i - 1 >= 0 /\ i - 1 < Len(result)
    THEN OrElse(At(result, i - 1)[f], Num(50))
    ELSE Num(0)

\* result[i - 1]?.k || 50 (resp. .d): 50 when there is no row i-1 or its value is falsy
PrevOr50(result, i, f) ==
  IF i - 1 >= 0 /\ i - 1 < Len(result)
    THEN OrElse(At(result, i - 1)[f], Num(50))
    ELSE Num(50)

\* for (let i = 0; i < data.length; i++), carrying i and result (rsvValues
\* is written and never read)
RECURSIVE KDJLoop(_, _, _)
KDJLoop(data, period, st) ==
  IF st.i < Len(data)
    THEN IF st.i < period - 1
           THEN KDJLoop(data, period,
                        [i |-> st.i + 1,
                         result |-> Append(st.result,
                                           [k |-> Num(50), d |-> Num(50), j |-> Num(50)])])
           ELSE LET rsv == KDJRsv(data, period, st.i)
                    k == Div(Add(Mul(Num(2), PrevOr50(st.result, st.i, "k")), rsv), Num(3))
                    d == Div(Add(Mul(Num(2), PrevOr50(st.result, st.i, "d")), k), Num(3))
                    jVal == Sub(Mul(Num(3), k), Mul(Num(2), d))
                IN  KDJLoop(data, period,
                            [i |-> st.i + 1,
                             result |-> Append(st.result, [k |-> k, d |-> d, j |-> jVal])])
    ELSE st.result

calculateKDJ(data, period) == KDJLoop(data, period, [i |-> 0, result |-> <<>>])

\* ------------------------------------------- the TechnicalIndicators report

\* data.reverse()
RECURSIVE Reverse(_)
Reverse(s) == IF Len(s) = 0 THEN <<>> ELSE Append(Reverse(Tail(s)), Head(s))

\* array[array.length - 1] of a non-empty array
Last(s) == s[Len(s)]

\* latestRSI ? (latestRSI > 70 ? 'sell' : latestRSI < 30 ? 'buy' : 'neutral') : 'neutral'
RSISignal(latest) ==
  IF Truthy(latest)
    THEN IF Gt(latest, Num(70)) THEN "sell"
         ELSE IF Lt(latest, Num(30)) THEN "buy"
         ELSE "neutral"
    ELSE "neutral"

\* short && long ? (short > long ? 'buy' : 'sell') : 'neutral'
MASignal(short, long) ==
  IF Truthy(short) /\ Truthy(long)
    THEN (IF Gt(short, long) THEN "buy" ELSE "sell")
    ELSE "neutral"

\* latestKDJ && prev ? (latestKDJ.k > (kdj[kdj.length - 2]?.k || 50) ? 'buy' : 'sell')
\* : 'neutral' (resp. .j); latestKDJ is a row, prev is null on a one-bar series
KDJSignal(rows, prevBar, f) ==
  IF prevBar
    THEN (IF Gt(Last(rows)[f], PrevOr50(rows, Len(rows) - 1, f)) THEN "buy" ELSE "sell")
    ELSE "neutral"

\* the array literal assigned to newIndicators, given the five computed
\* series; an entry without a signal has the signal "undefined"; the
\* descriptions are the source's Chinese labels in English
IndicatorEntries(hasPrev, sma5, sma10, sma20, rsi, kdj) ==
  LET latestSMA5 == Last(sma5)
      latestSMA10 == Last(sma10)
      latestSMA20 == Last(sma20)
      latestRSI == Last(rsi)
      latestKDJ == Last(kdj)
  IN  << [name |-> "MA5", value |-> OrElse(latestSMA5, Num(0)),
          signal |-> MASignal(latestSMA5, latestSMA10), description |-> "5-day MA"],
         [name |-> "MA10", value |-> OrElse(latestSMA10, Num(0)),
          signal |-> MASignal(latestSMA10, latestSMA20), description |-> "10-day MA"],
         [name |-> "MA20", value |-> OrElse(latestSMA20, Num(0)),
          signal |-> "undefined", description |-> "20-day MA"],
         [name |-> "RSI", value |-> OrElse(latestRSI, Num(50)),
          signal |-> RSISignal(latestRSI), description |-> "relative strength index"],
         [name |-> "KDJ.K", value |-> OrElse(latestKDJ.k, Num(50)),
          signal |-> KDJSignal(kdj, hasPrev, "k"), description |-> "K value"],
         [name |-> "KDJ.D", value |-> OrElse(latestKDJ.d, Num(50)),
          signal |-> "undefined", description |-> "D value"],
         [name |-> "KDJ.J", value |-> OrElse(latestKDJ.j, Num(50)),
          signal |-> KDJSignal(kdj, hasPrev, "j"), description |-> "J value"] >>

\* newIndicators of the effect on klineData (klineData is not empty): the
\* five series are computed, then the entries are assembled
newIndicators(kd) ==
  IndicatorEntries(Len(kd) > 1,
                   calculateSMA(kd, 5), calculateSMA(kd, 10), calculateSMA(kd, 20),
                   calculateRSI(kd, RSIDefaultPeriod), calculateKDJ(kd, KDJDefaultPeriod))

\* the effect on klineData: no report for an empty series (the indicators
\* shown stay), else the report of the series
ReportEffect(kd, shown) == IF Len(kd) = 0 THEN shown ELSE newIndicators(kd)

\* ------------------------------------------------- the indicator functions

\* the bars the series of the model are built from: a flat bar, bars whose
\* close is the middle, the low or the high of their range, and one bar whose
\* close lies below its low (a response of the K-line API is not validated)
BarChoices ==
  { Bar(2, 2, 2), Bar(3, 1, 2), Bar(3, 2, 2), Bar(3, 1, 3), Bar(3, 2, 1) }

\* longest series built from BarChoices
MaxLen == 4

\* the flat bars with closes first, first + step/den, ..., n bars in all
RECURSIVE Ramp(_, _, _, _)
Ramp(first, step, den, n) ==
  IF n = 0 THEN <<>>
  ELSE LET c == Rat(first + (n - 1) * step, den)
       IN  Append(Ramp(first, step, den, n - 1), [high |-> c, low |-> c, close |-> c])

\* the series of the two worked examples: closes 1, 2, 3, 4, 5 and the 20
\* strictly increasing closes 10.00, 10.10, ..., 11.90
ExampleSeries == { Ramp(1, 1, 1, 5), Ramp(100, 1, 10, 20) }

\* the 20-bar example is longer than every other series of the model
IsLong(s) == Len(s) > MaxLen + 2

\* the periods of the calls: the non-positive periods -1 and 0, every period
\* up to one more than the longest series and the period 5 of the SMA
\* example; the 20-bar example is called with the default RSI period
Periods(s) ==
  IF IsLong(s) THEN {RSIDefaultPeriod} ELSE ((-1)..(MaxLen + 1)) \cup {5}

RECURSIVE SeqsUpTo(_, _)
SeqsUpTo(S, n) ==
  IF n = 0 THEN { <<>> }
  ELSE LET shorter == SeqsUpTo(S, n - 1)
       IN  shorter \cup { Append(s, x) : s \in { t \in shorter : Len(t) = n - 1 }, x \in S }

\* the arguments and the result of a call of an indicator function or of the
\* report assembly, and the number of calls made on these arguments
VARIABLES data, period, fn, result, calls

\* the TechnicalIndicators component: its code prop, its three states and
\* the codes of the getKLine requests in flight (in the order of issue),
\* with the number of requests issued so far
VARIABLES code, klineData, indicators, loading, inflight, issued

callVars == <<data, period, fn, result, calls>>

tiVars == <<code, klineData, indicators, loading, inflight, issued>>

\* ChatPage: its states isLoading and streamingMessageId, the ref
\* abortControllerRef, and the handleSend calls made so far with the state
\* of the stream request of each.  The n-th call is request n, its assistant
\* message has the id n, and its AbortController is named n.
VARIABLES isLoading, streamingMessageId, abortControllerRef, requests

\* ChatPage: its state messages, and the number of content chunks each
\* request has appended so far
VARIABLES messages, chunksRead

chatVars ==
  <<isLoading, streamingMessageId, abortControllerRef, requests, messages, chunksRead>>

\* the reader loop of one handleSend call: the lines of the response body,
\* the number of its bytes that reader.read() has delivered, the bytes the
\* TextDecoder holds back, the local buffer, the content of the assistant
\* message, whether read() has reported done, and whether some read() ended
\* in the middle of a line
VARIABLES sse, bytesRead, decoderPending, buffer, content, done, splitInLine

readerVars == <<sse, bytesRead, decoderPending, buffer, content, done, splitInLine>>

\* StockPage: its states watchedStocks and selectedStock (with the queued
\* updates applied), the values of both that the handlers of the last
\* render close over, and the localStorage item 'watchedStocks'
VARIABLES watchedStocks, selectedStock, rendered, savedStocks

pageVars == <<watchedStocks, selectedStock, rendered, savedStocks>>

vars ==
  <<data, period, fn, result, calls, code, klineData, indicators, loading, inflight, issued,
    isLoading, streamingMessageId, abortControllerRef, requests, messages, chunksRead,
    sse, bytesRead, decoderPending, buffer, content, done, splitInLine,
    watchedStocks, selectedStock, rendered, savedStocks>>

\* null, where a message id or an AbortController is expected
NoId == 0

\* ChatPage as mounted: no message is streaming, no request was made
ChatIdle ==
  /\ isLoading = FALSE
  /\ streamingMessageId = NoId
  /\ abortControllerRef = NoId
  /\ requests = <<>>
  /\ messages = <<>>
  /\ chunksRead = <<>>

\* no response body is being read
ReaderIdle ==
  /\ sse = <<>>
  /\ bytesRead = 0
  /\ decoderPending = <<>>
  /\ buffer = <<>>
  /\ content = <<>>
  /\ done = FALSE
  /\ splitInLine = FALSE

\* null, where a stock code is expected
NoStock == "null"

\* the localStorage item 'watchedStocks': never set, or set to the JSON text
\* of a list of codes
NoItem == [set |-> FALSE, list |-> <<>>]

\* StockPage is not mounted
PageUnmounted ==
  /\ watchedStocks = <<>>
  /\ selectedStock = NoStock
  /\ rendered = [watchedStocks |-> <<>>, selectedStock |-> NoStock]
  /\ savedStocks = NoItem

\* the component is not mounted
TIUnmounted ==
  /\ code = ""
  /\ klineData = <<>>
  /\ indicators = <<>>
  /\ loading = TRUE
  /\ inflight = <<>>
  /\ issued = 0

\* a series handed to the functions, and no call made yet.  calculateEMA and
\* calculateKDJ are not called on the 20-bar example: the exact fractions of
\* their recurrences outgrow the integers of the model checker there.
Init ==
  /\ data \in SeqsUpTo(BarChoices, MaxLen) \cup ExampleSeries
  /\ period = 0
  /\ fn = "none"
  /\ result = <<>>
  /\ calls = 0
  /\ TIUnmounted
  /\ ChatIdle
  /\ ReaderIdle
  /\ PageUnmounted

CallSMA ==
  /\ fn = "none"
  /\ \E p \in Periods(data) :
       /\ period' = p
       /\ result' = calculateSMA(data, p)
  /\ fn' = "SMA"
  /\ calls' = 1
  /\ UNCHANGED <<data, tiVars, chatVars, readerVars, pageVars>>

CallEMA ==
  /\ fn = "none"
  /\ ~IsLong(data)
  /\ \E p \in Periods(data) :
       /\ period' = p
       /\ result' = calculateEMA(Closes(data), p)
  /\ fn' = "EMA"
  /\ calls' = 1
  /\ UNCHANGED <<data, tiVars, chatVars, readerVars, pageVars>>

\* CallRSI with a calculateRSI that reverses the array it is handed in place
CallRSI_ReversesInput ==
  /\ fn = "none"
  /\ \E p \in Periods(data) :
       /\ period' = p
       /\ result' = calculateRSI(Reverse(data), p)
  /\ data' = Reverse(data)
  /\ fn' = "RSI"
  /\ calls' = 1
  /\ UNCHANGED <<tiVars, chatVars, readerVars, pageVars>>

CallRSI ==
  /\ fn = "none"
  /\ \E p \in Periods(data) :
       /\ period' = p
       /\ result' = calculateRSI(data, p)
  /\ fn' = "RSI"
  /\ calls' = 1
  /\ UNCHANGED <<data, tiVars, chatVars, readerVars, pageVars>>

CallKDJ ==
  /\ fn = "none"
  /\ ~IsLong(data)
  /\ \E p \in Periods(data) :
       /\ period' = p
       /\ result' = calculateKDJ(data, p)
  /\ fn' = "KDJ"
  /\ calls' = 1
  /\ UNCHANGED <<data, tiVars, chatVars, readerVars, pageVars>>

\* the report assembly on a non-empty series (the effect on klineData returns
\* before it on an empty one); like calculateKDJ, not on the 20-bar example
CallReport ==
  /\ fn = "none"
  /\ data # <<>>
  /\ ~IsLong(data)
  /\ result' = newIndicators(data)
  /\ fn' = "report"
  /\ calls' = 1
  /\ UNCHANGED <<data, period, tiVars, chatVars, readerVars, pageVars>>

\* what the function named f returns on the series d with the period p
Returned(f, d, p) ==
  CASE f = "SMA" -> calculateSMA(d, p)
    [] f = "EMA" -> calculateEMA(Closes(d), p)
    [] f = "RSI" -> calculateRSI(d, p)
    [] f = "KDJ" -> calculateKDJ(d, p)
    [] f = "report" -> newIndicators(d)

\* the second call with a result array that outlives the first call: the
\* entries of the second call are pushed after those of the first
CallAgain_SharedResult ==
  /\ calls = 1
  /\ result' = result \o Returned(fn, data, period)
  /\ calls' = 2
  /\ UNCHANGED <<data, period, fn, tiVars, chatVars, readerVars, pageVars>>

\* the same function is called a second time on the same arguments
CallAgain ==
  /\ calls = 1
  /\ result' = Returned(fn, data, period)
  /\ calls' = 2
  /\ UNCHANGED <<data, period, fn, tiVars, chatVars, readerVars, pageVars>>

Next == CallSMA \/ CallEMA \/ CallRSI \/ CallKDJ \/ CallReport \/ CallAgain

Spec == Init /\ [][Next]_vars

\* ---------------------------------------------- the K-line responses

\* the codes the parent passes as the code prop
Codes == {"A", "B"}

\* a bar of a response: the bar b of code c with the date t
KLine(c, t, b) ==
  [code |-> c, date |-> t, high |-> b.high, low |-> b.low, close |-> b.close]

\* the bars of the responses: the bar a response is padded with, and the bars
\* of its varying part
PadBar == Bar(2, 2, 2)

VaryBars == { Bar(3, 2, 3), Bar(5, 0, 0), Bar(5, 1, 5) }

\* the longest varying part of a response, and the numbers of padding bars
\* (with 13 padding bars and a varying part the series reaches the 15 bars
\* RSI(14) needs)
MaxVary == 2

PadLens == {0, 13}

\* n copies of x
RECURSIVE Repeat(_, _)
Repeat(x, n) == IF n = 0 THEN <<>> ELSE Append(Repeat(x, n - 1), x)

\* further responses (the response is not validated): ten bars of price 0;
\* ten bars whose second, once reversed the bar before the last, closes
\* below its low by the range of its window; twenty bars, enough for SMA20
SpecialSeries ==
  { Repeat(Bar(0, 0, 0), 10),
    <<Bar(2, 2, 2), Bar(3, 2, 1)>> \o Repeat(PadBar, 8),
    <<Bar(3, 2, 3), Bar(5, 0, 0)>> \o Repeat(PadBar, 18) }

\* the bars of a response in the order of the array: up to MaxVary varying
\* bars followed by padding bars (the array klineData holds is the reverse:
\* the padding first, the varying bars last)
ResponseBars ==
  { v \o Repeat(PadBar, n) : v \in SeqsUpTo(VaryBars, MaxVary), n \in PadLens }
    \cup SpecialSeries

\* the order of the dates in a response: nothing in the client fixes it
Orders == {"oldestFirst", "newestFirst"}

\* the responses of getKLine for code c: the bars dated by their position,
\* counted from the front or from the back of the array
Responses(c) ==
  { [t \in 1..Len(bars) |->
       KLine(c, IF o = "oldestFirst" THEN t ELSE Len(bars) + 1 - t, bars[t])] :
      bars \in ResponseBars, o \in Orders }

\* the most getKLine requests one behaviour issues
MaxFetches == 2

\* ---------------------------------------------- the TechnicalIndicators component

\* the component is mounted with a code: the effect on code calls fetchData,
\* which sets loading and issues the request
InitTI ==
  /\ data = <<>> /\ period = 0 /\ fn = "none" /\ result = <<>> /\ calls = 0
  /\ code \in Codes
  /\ klineData = <<>>
  /\ indicators = <<>>
  /\ loading = TRUE
  /\ inflight = <<code>>
  /\ issued = 1
  /\ ChatIdle
  /\ ReaderIdle
  /\ PageUnmounted

\* the parent passes another code: the effect on code runs again and calls
\* fetchData (the request in flight is not cancelled)
CodeChange ==
  /\ code # ""
  /\ issued < MaxFetches
  /\ \E c \in Codes \ {code} :
       /\ code' = c
       /\ inflight' = Append(inflight, c)
  /\ loading' = TRUE
  /\ issued' = issued + 1
  /\ UNCHANGED <<klineData, indicators, callVars, chatVars, readerVars, pageVars>>

\* the sequence s without its i-th element
Without(s, i) == SubSeq(s, 1, i - 1) \o SubSeq(s, i + 1, Len(s))

\* a request resolves: setKlineData(data.reverse()), setLoading(false), and
\* the effect on klineData assembles the report
GetKLineResolve ==
  /\ \E i \in 1..Len(inflight) :
       /\ \E resp \in Responses(inflight[i]) :
            /\ klineData' = Reverse(resp)
            /\ indicators' = ReportEffect(klineData', indicators)
       /\ inflight' = Without(inflight, i)
  /\ loading' = FALSE
  /\ UNCHANGED <<code, issued, callVars, chatVars, readerVars, pageVars>>

\* a request fails: the error is logged, setLoading(false)
GetKLineReject ==
  /\ \E i \in 1..Len(inflight) : inflight' = Without(inflight, i)
  /\ loading' = FALSE
  /\ UNCHANGED <<code, klineData, indicators, issued, callVars, chatVars, readerVars, pageVars>>

NextTI == CodeChange \/ GetKLineResolve \/ GetKLineReject

SpecTI == InitTI /\ [][NextTI]_vars

\* ------------------------------------------------------------------ ChatPage

\* the most handleSend calls of one behaviour
MaxSends == 4

\* the states of a stream request: awaiting fetch, awaiting reader.read(),
\* aborted with the rejection not yet delivered to its handleSend call, and
\* the three ways its handleSend call has ended
Live == {"fetching", "reading"}

Ended == {"completed", "failed", "cancelled"}

\* the rejection of an aborted request is a microtask: it is delivered
\* before any other event is handled
NoPendingAbort == \A r \in 1..Len(requests) : requests[r] # "aborted"

\* abortControllerRef.current.abort(), when the ref is not null: the request
\* of that controller, if still awaited, is aborted
AbortCurrent ==
  IF abortControllerRef # NoId /\ requests[abortControllerRef] \in Live
    THEN [requests EXCEPT ![abortControllerRef] = "aborted"]
    ELSE requests

\* the most content chunks one request appends
MaxChunks == 2

\* the n-th content that request r appends to its message (n >= 1), and the
\* text that call r sends (n = 0)
Chunk(r, n) == [req |-> r, seq |-> n]

\* the fixed text of the catch block
ErrorText == <<[req |-> NoId, seq |-> 0]>>

\* userMessage and assistantMessage of call r.  generateId joins the time and
\* a random string: every id is taken to differ from every other one, r for
\* the assistant message and -r for the user message.
NewMessages(r) ==
  << [id |-> 0 - r, role |-> "user", content |-> <<Chunk(r, 0)>>],
     [id |-> r, role |-> "assistant", content |-> <<>>] >>

\* the chunk appended to the message that is streaming instead of the
\* message of the call
AppendContent_ToStreaming(msgs, assistantMessageId, c) ==
  [i \in 1..Len(msgs) |->
     IF msgs[i].id = streamingMessageId
       THEN [msgs[i] EXCEPT !.content = Append(@, c)]
       ELSE msgs[i]]

\* prev.map(msg => msg.id === assistantMessageId
\*                  ? { ...msg, content: msg.content + parsed.content } : msg)
AppendContent(msgs, assistantMessageId, c) ==
  [i \in 1..Len(msgs) |->
     IF msgs[i].id = assistantMessageId
       THEN [msgs[i] EXCEPT !.content = Append(@, c)]
       ELSE msgs[i]]

\* prev.map(msg => msg.id === assistantMessageId
\*                  ? { ...msg, content: <the fixed text> } : msg)
SetErrorText(msgs, assistantMessageId) ==
  [i \in 1..Len(msgs) |->
     IF msgs[i].id = assistantMessageId
       THEN [msgs[i] EXCEPT !.content = ErrorText]
       ELSE msgs[i]]

\* handleSend up to its first await, called by ChatWindow (which returns
\* before onSend while it is disabled) or by a quick question (never
\* disabled): the request of the controller in the ref is aborted, the two
\* messages are appended, the states and the ref are set, fetch is called
HandleSend ==
  /\ Len(requests) < MaxSends
  /\ NoPendingAbort
  /\ \E source \in {"ChatWindow", "QuickQuestions"} :
       source = "ChatWindow" => ~isLoading
  /\ requests' = Append(AbortCurrent, "fetching")
  /\ isLoading' = TRUE
  /\ messages' = messages \o NewMessages(Len(requests) + 1)
  /\ chunksRead' = Append(chunksRead, 0)
  /\ streamingMessageId' = Len(requests) + 1
  /\ abortControllerRef' = Len(requests) + 1
  /\ UNCHANGED <<callVars, tiVars, readerVars, pageVars>>

\* the finally block of handleSend
Finally ==
  /\ isLoading' = FALSE
  /\ streamingMessageId' = NoId
  /\ abortControllerRef' = NoId

\* fetch resolves with an ok response that has a body: the call goes on to
\* read the stream
FetchResolve ==
  /\ NoPendingAbort
  /\ \E r \in 1..Len(requests) :
       /\ requests[r] = "fetching"
       /\ requests' = [requests EXCEPT ![r] = "reading"]
  /\ UNCHANGED <<isLoading, streamingMessageId, abortControllerRef, messages, chunksRead,
                 callVars, tiVars, readerVars, pageVars>>

\* a read of request r yields a line 'data: <JSON>' with a content: it is
\* appended to the message of the call
StreamChunk ==
  /\ NoPendingAbort
  /\ \E r \in 1..Len(requests) :
       /\ requests[r] = "reading"
       /\ chunksRead[r] < MaxChunks
       /\ chunksRead' = [chunksRead EXCEPT ![r] = @ + 1]
       /\ messages' = AppendContent(messages, r, Chunk(r, chunksRead[r] + 1))
  /\ UNCHANGED <<isLoading, streamingMessageId, abortControllerRef, requests,
                 callVars, tiVars, readerVars, pageVars>>

\* reader.read() reports done: the loop is left and the finally block runs
StreamDone ==
  /\ NoPendingAbort
  /\ \E r \in 1..Len(requests) :
       /\ requests[r] = "reading"
       /\ requests' = [requests EXCEPT ![r] = "completed"]
  /\ Finally
  /\ UNCHANGED <<messages, chunksRead, callVars, tiVars, readerVars, pageVars>>

\* fetch rejects, the response is not ok or has no body, or a read fails:
\* the catch block (not an AbortError), then the finally block
RequestFails ==
  /\ NoPendingAbort
  /\ \E r \in 1..Len(requests) :
       /\ requests[r] \in Live
       /\ requests' = [requests EXCEPT ![r] = "failed"]
       /\ messages' = SetErrorText(messages, r)
  /\ Finally
  /\ UNCHANGED <<chunksRead, callVars, tiVars, readerVars, pageVars>>

\* the await of an aborted request rejects with an AbortError: the catch
\* block returns, and the finally block runs
AbortRejection ==
  /\ \E r \in 1..Len(requests) :
       /\ requests[r] = "aborted"
       /\ requests' = [requests EXCEPT ![r] = "cancelled"]
  /\ Finally
  /\ UNCHANGED <<messages, chunksRead, callVars, tiVars, readerVars, pageVars>>

InitChat ==
  /\ data = <<>> /\ period = 0 /\ fn = "none" /\ result = <<>> /\ calls = 0
  /\ TIUnmounted
  /\ ChatIdle
  /\ ReaderIdle
  /\ PageUnmounted

NextChat ==
  HandleSend \/ FetchResolve \/ StreamChunk \/ StreamDone \/ RequestFails \/ AbortRejection

SpecChat == InitChat /\ [][NextChat]_vars

\* ------------------------------------------------ ChatPage: the reader loop

\* Strings are sequences of characters and a response body is a sequence of
\* bytes.  An ASCII character and its byte are written alike; the one
\* character of two bytes is U+00E9.
Utf8Lead == "0xC3"

Utf8Cont == "0xA9"

EAcute == "U+00E9"

Replacement == "U+FFFD"

NewLine == "\n"

\* 'data: '
DataPrefix == <<"d", "a", "t", "a", ":", " ">>

\* '[DONE]'
DoneText == <<"[", "D", "O", "N", "E", "]">>

\* '{"content":"' and '"}'
JsonOpen == <<"{", "\"", "c", "o", "n", "t", "e", "n", "t", "\"", ":", "\"">>

JsonClose == <<"\"", "}">>

\* the lines a body is made of, without the newline that ends each: data
\* lines with the content x, with the content U+00E9 and with an empty
\* content, the end marker, a data line that is not JSON, a comment line, an
\* empty line
LineKinds == {"x", "eacute", "empty", "done", "bad", "comment", "blank"}

LineText(kind) ==
  CASE kind = "x" -> DataPrefix \o JsonOpen \o <<"x">> \o JsonClose
    [] kind = "eacute" -> DataPrefix \o JsonOpen \o <<Utf8Lead, Utf8Cont>> \o JsonClose
    [] kind = "empty" -> DataPrefix \o JsonOpen \o JsonClose
    [] kind = "done" -> DataPrefix \o DoneText
    [] kind = "bad" -> DataPrefix \o <<"{">>
    [] kind = "comment" -> <<":", " ", "p">>
    [] kind = "blank" -> <<>>

\* the most lines of a body
MaxLines == 2

\* the response body: every line followed by a newline
RECURSIVE Body(_)
Body(kinds) ==
  IF kinds = <<>> THEN <<>>
  ELSE LineText(Head(kinds)) \o <<NewLine>> \o Body(Tail(kinds))

\* decoder.decode(value, { stream: true }) on the bytes held back followed by
\* value: the text decoded and the bytes of an incomplete character, held
\* back for the next call
RECURSIVE DecodeLoop(_, _)
DecodeLoop(bytes, st) ==
  IF st.i > Len(bytes) THEN [text |-> st.text, pending |-> <<>>]
  ELSE IF bytes[st.i] = Utf8Lead
    THEN IF st.i = Len(bytes) THEN [text |-> st.text, pending |-> <<Utf8Lead>>]
         ELSE IF bytes[st.i + 1] = Utf8Cont
           THEN DecodeLoop(bytes, [i |-> st.i + 2, text |-> Append(st.text, EAcute)])
           ELSE DecodeLoop(bytes, [i |-> st.i + 1, text |-> Append(st.text, Replacement)])
  ELSE IF bytes[st.i] = Utf8Cont
    THEN DecodeLoop(bytes, [i |-> st.i + 1, text |-> Append(st.text, Replacement)])
    ELSE DecodeLoop(bytes, [i |-> st.i + 1, text |-> Append(st.text, bytes[st.i])])

Decode(bytes) == DecodeLoop(bytes, [i |-> 1, text |-> <<>>])

\* text.split('\n'): the pieces between the newlines, one more than there
\* are newlines
RECURSIVE SplitLoop(_, _)
SplitLoop(text, st) ==
  IF st.i > Len(text) THEN Append(st.lines, st.cur)
  ELSE IF text[st.i] = NewLine
    THEN SplitLoop(text, [i |-> st.i + 1, cur |-> <<>>, lines |-> Append(st.lines, st.cur)])
    ELSE SplitLoop(text, [i |-> st.i + 1, cur |-> Append(st.cur, text[st.i]), lines |-> st.lines])

Split(text) == SplitLoop(text, [i |-> 1, cur |-> <<>>, lines |-> <<>>])

\* the incomplete line dropped instead of kept for the next read
PoppedLine_Dropped(pieces) == <<>>

\* lines.pop() || ''
PoppedLine(pieces) == IF pieces = <<>> THEN <<>> ELSE pieces[Len(pieces)]

\* lines after lines.pop()
AfterPop(pieces) == SubSeq(pieces, 1, Len(pieces) - 1)

\* line.startsWith('data: ')
StartsWith(line, prefix) ==
  Len(line) >= Len(prefix) /\ SubSeq(line, 1, Len(prefix)) = prefix

\* line.slice(6)
Slice6(line) == SubSeq(line, 7, Len(line))

\* what try { parsed = JSON.parse(data); if (parsed.content) ... } catch {}
\* appends: the content when data is the text of an object with a string
\* content (written without escapes), and nothing for the other texts of the
\* model, which do not parse or parse to a value without a content
ParsedContent(text) ==
  IF /\ StartsWith(text, JsonOpen)
     /\ Len(text) >= Len(JsonOpen) + Len(JsonClose)
     /\ SubSeq(text, Len(text) - 1, Len(text)) = JsonClose
     /\ \A i \in (Len(JsonOpen) + 1)..(Len(text) - 2) : text[i] \notin {"\"", "\\"}
    THEN SubSeq(text, Len(JsonOpen) + 1, Len(text) - 2)
    ELSE <<>>

\* the body of for (const line of lines), on the content of the message
ProcessLine(line, msgContent) ==
  IF StartsWith(line, DataPrefix)
    THEN IF Slice6(line) = DoneText THEN msgContent
         ELSE msgContent \o ParsedContent(Slice6(line))
    ELSE msgContent

\* for (const line of lines)
RECURSIVE ProcessLines(_, _)
ProcessLines(lines, st) ==
  IF st.i > Len(lines) THEN st.content
  ELSE ProcessLines(lines, [i |-> st.i + 1, content |-> ProcessLine(lines[st.i], st.content)])

\* the reader loop is entered: a body is about to be read
InitReader ==
  /\ data = <<>> /\ period = 0 /\ fn = "none" /\ result = <<>> /\ calls = 0
  /\ TIUnmounted
  /\ ChatIdle
  /\ PageUnmounted
  /\ sse \in SeqsUpTo(LineKinds, MaxLines)
  /\ bytesRead = 0
  /\ decoderPending = <<>>
  /\ buffer = <<>>
  /\ content = <<>>
  /\ done = FALSE
  /\ splitInLine = FALSE

\* one pass of the loop on a read() that yields the next n bytes of the body
ReadValue ==
  /\ ~done
  /\ \E n \in 1..(Len(Body(sse)) - bytesRead) :
       LET value == SubSeq(Body(sse), bytesRead + 1, bytesRead + n)
           decoded == Decode(decoderPending \o value)
           lines == Split(buffer \o decoded.text)
       IN  /\ bytesRead' = bytesRead + n
           /\ decoderPending' = decoded.pending
           /\ buffer' = PoppedLine(lines)
           /\ content' = ProcessLines(AfterPop(lines), [i |-> 1, content |-> content])
           /\ splitInLine' = (splitInLine \/ PoppedLine(lines) # <<>> \/ decoded.pending # <<>>)
  /\ UNCHANGED <<sse, done, callVars, tiVars, chatVars, pageVars>>

\* read() reports done once the body is exhausted: the loop is left
ReadDone ==
  /\ ~done
  /\ bytesRead = Len(Body(sse))
  /\ done' = TRUE
  /\ UNCHANGED <<sse, bytesRead, decoderPending, buffer, content, splitInLine,
                 callVars, tiVars, chatVars, pageVars>>

NextReader == ReadValue \/ ReadDone

SpecReader == InitReader /\ [][NextReader]_vars

\* ------------------------------------------------------------------ StockPage

StockCodes == {"600000", "000001", "300750"}

\* the longest watch list of one behaviour
MaxWatched == 4

\* JSON.stringify(watchedStocks), as kept by localStorage.setItem
Stringify(list) == [set |-> TRUE, list |-> list]

\* saved ? JSON.parse(saved) : []  (the JSON text of a list of strings parses
\* to that list; null is falsy)
ParseSaved(saved) == IF saved.set THEN saved.list ELSE <<>>

\* watchedStocks.includes(code)
Includes(list, c) == \E i \in 1..Len(list) : list[i] = c

\* prev.filter((c) => c !== code)
FilterOut(list, c) == SelectSeq(list, LAMBDA x : x # c)

\* the lists without duplicates over StockCodes
DistinctLists ==
  { l \in SeqsUpTo(StockCodes, Cardinality(StockCodes)) :
      \A i, j \in 1..Len(l) : i # j => l[i] # l[j] }

\* useState initialisers and the first render, before its effects
Mount ==
  /\ watchedStocks' = ParseSaved(savedStocks)
  /\ selectedStock' = NoStock
  /\ rendered' = [watchedStocks |-> ParseSaved(savedStocks), selectedStock |-> NoStock]
  /\ UNCHANGED savedStocks

\* the page as mounted on an item that was never set or that holds a list
\* without duplicates
InitPage ==
  /\ data = <<>> /\ period = 0 /\ fn = "none" /\ result = <<>> /\ calls = 0
  /\ TIUnmounted
  /\ ChatIdle
  /\ ReaderIdle
  /\ savedStocks \in {NoItem} \cup { Stringify(l) : l \in DistinctLists }
  /\ watchedStocks = ParseSaved(savedStocks)
  /\ selectedStock = NoStock
  /\ rendered = [watchedStocks |-> ParseSaved(savedStocks), selectedStock |-> NoStock]

\* handleStockSelect(code), as passed to StockSearch: the test reads the
\* watchedStocks of the render the handler belongs to, the update appends to
\* the state as it is when the update is applied
HandleStockSelect ==
  /\ \E c \in StockCodes :
       /\ IF ~Includes(rendered.watchedStocks, c)
            THEN /\ Len(watchedStocks) < MaxWatched
                 /\ watchedStocks' = Append(watchedStocks, c)
            ELSE UNCHANGED watchedStocks
       /\ selectedStock' = c
  /\ UNCHANGED <<rendered, savedStocks, callVars, tiVars, chatVars, readerVars>>

\* removeStock(code, e): the filter is applied to the state as it is when the
\* update is applied, the test reads the selectedStock of the render
RemoveStock ==
  /\ \E c \in StockCodes :
       /\ watchedStocks' = FilterOut(watchedStocks, c)
       /\ selectedStock' = IF rendered.selectedStock = c THEN NoStock ELSE selectedStock
  /\ UNCHANGED <<rendered, savedStocks, callVars, tiVars, chatVars, readerVars>>

\* the component renders with the states as they are, and the effect on
\* watchedStocks stores the list
Render ==
  /\ rendered' = [watchedStocks |-> watchedStocks, selectedStock |-> selectedStock]
  /\ savedStocks' = Stringify(watchedStocks)
  /\ UNCHANGED <<watchedStocks, selectedStock, callVars, tiVars, chatVars, readerVars>>

\* the page is loaded again: the states are initialised from the item stored
Reload ==
  /\ Mount
  /\ UNCHANGED <<callVars, tiVars, chatVars, readerVars>>

NextPage == HandleStockSelect \/ RemoveStock \/ Render \/ Reload

SpecPage == InitPage /\ [][NextPage]_vars

\* ------------------------------------------------------------------ claims

\* the sum of the closes of the bars lo..hi (0-based, inclusive)
RECURSIVE CloseTotal(_, _, _)
CloseTotal(s, lo, hi) ==
  IF lo > hi THEN Num(0) ELSE Add(CloseTotal(s, lo, hi - 1), At(s, hi).close)

\* C1: calculateSMA with a period >= 1 returns one entry per bar; the entry at
\* index i is null when i < period-1 and otherwise the arithmetic mean of the
\* closes of the bars i-period+1..i; SMA([1,2,3,4,5], 5) is null, null, null,
\* null, 3.
C1_SMAIsTrailingMean ==
  (fn = "SMA" /\ period >= 1) =>
    /\ Len(result) = Len(data)
    /\ \A i \in 0..(Len(data) - 1) :
         IF i < period - 1
           THEN At(result, i) = Null
           ELSE At(result, i) = Div(CloseTotal(data, i - period + 1, i), Num(period))
    /\ (data = Ramp(1, 1, 1, 5) /\ period = 5) =>
         result = <<Null, Null, Null, Null, Num(3)>>

\* a call with a period >= 2 on a series longer than the period whose last
\* window holds different closes: null entries and a mean are returned
C1_Witness ==
  /\ fn = "SMA" /\ period >= 2 /\ Len(data) > period
  /\ At(data, Len(data) - 1).close # At(data, Len(data) - 2).close
  /\ At(result, 0) = Null
  /\ IsNum(At(result, Len(data) - 1))

\* the close-to-close delta at index k >= 1
Delta(s, k) == Sub(At(s, k).close, At(s, k - 1).close)

\* C2: calculateEMA with a period >= 1 returns one entry per value; entries
\* 0..period-2 are null, the entry at period-1 is the mean of the first period
\* values, and every later entry is
\* (value[i] - EMA[i-1]) * (2/(period+1)) + EMA[i-1] of the entry before it.
C2_EMARecurrence ==
  (fn = "EMA" /\ period >= 1) =>
    /\ Len(result) = Len(data)
    /\ \A i \in 0..(Len(data) - 1) :
         IF i < period - 1
           THEN At(result, i) = Null
         ELSE IF i = period - 1
           THEN At(result, i) = Div(CloseTotal(data, 0, period - 1), Num(period))
         ELSE At(result, i) =
                Add(Mul(Sub(At(data, i).close, At(result, i - 1)),
                        Div(Num(2), Num(period + 1))),
                    At(result, i - 1))

\* a call whose result holds a null, the seed and a later entry that differs
\* from the seed
C2_Witness ==
  /\ fn = "EMA" /\ period >= 2 /\ Len(data) > period
  /\ At(result, 0) = Null
  /\ IsNum(At(result, period - 1))
  /\ IsNum(At(result, period))
  /\ At(result, period) # At(result, period - 1)

\* the sum of the positive deltas lo..hi
RECURSIVE GainTotal(_, _, _)
GainTotal(s, lo, hi) ==
  IF lo > hi THEN Num(0)
  ELSE IF Gt(Delta(s, hi), Num(0))
    THEN Add(GainTotal(s, lo, hi - 1), Delta(s, hi))
    ELSE GainTotal(s, lo, hi - 1)

\* the sum of the absolute values of the negative deltas lo..hi
RECURSIVE LossTotal(_, _, _)
LossTotal(s, lo, hi) ==
  IF lo > hi THEN Num(0)
  ELSE IF Lt(Delta(s, hi), Num(0))
    THEN Add(LossTotal(s, lo, hi - 1), Neg(Delta(s, hi)))
    ELSE LossTotal(s, lo, hi - 1)

\* 100 when losses = 0, else 100 - 100/(1 + gains/losses)
RSIOf(gains, losses) ==
  IF losses = Num(0) THEN Num(100)
  ELSE Sub(Num(100), Div(Num(100), Add(Num(1), Div(gains, losses))))

\* C3: calculateRSI with a period >= 1 returns null at every index i < period;
\* at every index i >= period the entry is computed from the period deltas
\* delta[i-period+1..i] alone (delta[k] = close[k] - close[k-1], k >= 1):
\* 100 when they hold no loss, else 100 - 100/(1 + gains/losses).
C3_RSIWindowRecompute ==
  (fn = "RSI" /\ period >= 1) =>
    /\ Len(result) = Len(data)
    /\ \A i \in 0..(Len(data) - 1) :
         IF i < period
           THEN At(result, i) = Null
           ELSE /\ i - period + 1 >= 1
                /\ At(result, i) = RSIOf(GainTotal(data, i - period + 1, i),
                                         LossTotal(data, i - period + 1, i))

\* a call where a window of at least two deltas holds a gain and a loss, and a
\* later index exists whose window has dropped the oldest delta
C3_Witness ==
  /\ fn = "RSI" /\ period >= 2 /\ Len(data) > period + 1
  /\ Gt(GainTotal(data, 1, period), Num(0))
  /\ Gt(LossTotal(data, 1, period), Num(0))
  /\ IsNum(At(result, period)) /\ IsNum(At(result, period + 1))
  /\ At(result, period) # At(result, period + 1)

\* the highest high and the lowest low of the bars lo..hi
MaxHigh(s, lo, hi) ==
  CHOOSE h \in { At(s, k).high : k \in lo..hi } :
    \A k \in lo..hi : ~Gt(At(s, k).high, h)

MinLow(s, lo, hi) ==
  CHOOSE l \in { At(s, k).low : k \in lo..hi } :
    \A k \in lo..hi : ~Lt(At(s, k).low, l)

\* 50 if the window's range is zero, else (close[i] - minLow)/(maxHigh - minLow)*100
RSVOf(s, p, i) ==
  LET h == MaxHigh(s, i - p + 1, i)
      l == MinLow(s, i - p + 1, i)
  IN  IF h = l THEN Num(50)
      ELSE Mul(Div(Sub(At(s, i).close, l), Sub(h, l)), Num(100))

Seed50 == [k |-> Num(50), d |-> Num(50), j |-> Num(50)]

\* C4: calculateKDJ with a period >= 1 yields the seed {50, 50, 50} at every
\* index i < period-1, and at every index i >= period-1 the row
\* K = (2*K[i-1] + RSV)/3, D = (2*D[i-1] + K)/3, J = 3*K - 2*D, where K[i-1] and
\* D[i-1] are the values of the row emitted at i-1, and 50 only when i = 0.
C4_KDJRecurrence ==
  (fn = "KDJ" /\ period >= 1) =>
    /\ Len(result) = Len(data)
    /\ \A i \in 0..(Len(data) - 1) :
         IF i < period - 1
           THEN At(result, i) = Seed50
           ELSE LET prevK == IF i = 0 THEN Num(50) ELSE At(result, i - 1).k
                    prevD == IF i = 0 THEN Num(50) ELSE At(result, i - 1).d
                    k == Div(Add(Mul(Num(2), prevK), RSVOf(data, period, i)), Num(3))
                    d == Div(Add(Mul(Num(2), prevD), k), Num(3))
                IN  At(result, i) = [k |-> k, d |-> d, j |-> Sub(Mul(Num(3), k), Mul(Num(2), d))]

\* C5: on a series shorter than the period, calculateSMA, calculateEMA and
\* calculateRSI return one null per bar.
C5_ShortSeriesAllNull ==
  (fn \in {"SMA", "EMA", "RSI"} /\ Len(data) < period) =>
    /\ Len(result) = Len(data)
    /\ \A i \in 0..(Len(data) - 1) : At(result, i) = Null

\* a call of calculateSMA on two or more bars with a larger period
C5_Witness ==
  /\ fn = "SMA" /\ Len(data) >= 2 /\ Len(data) < period
  /\ Len(result) = Len(data)
  /\ At(result, Len(data) - 1) = Null

\* every bar of s closes at the close of the first bar
ConstantClose(s) == \A i \in 1..Len(s) : s[i].close = s[1].close

C7_RSIInRange ==
  (fn = "RSI" /\ period >= 1) =>
    \A i \in 0..(Len(data) - 1) :
      \/ At(result, i) = Null
      \/ /\ IsNum(At(result, i))
         /\ ~Lt(At(result, i), Num(0))
         /\ ~Gt(At(result, i), Num(100))

\* a call that returns a value strictly between 0 and 100, and 0 or 100 as well
C7_Witness ==
  /\ fn = "RSI" /\ period >= 2
  /\ \E i \in 0..(Len(data) - 1) :
       /\ IsNum(At(result, i))
       /\ Gt(At(result, i), Num(0)) /\ Lt(At(result, i), Num(100))
  /\ \E i \in 0..(Len(data) - 1) : At(result, i) \in {Num(0), Num(100)}

\* none of the deltas lo..hi is negative
NoLoss(s, lo, hi) == \A k \in lo..hi : ~Lt(Delta(s, k), Num(0))

\* one of the deltas lo..hi is positive
SomeGain(s, lo, hi) == \E k \in lo..hi : Gt(Delta(s, k), Num(0))

\* C8 as stated: at every index i >= period calculateRSI returns 100 exactly
\* when the period trailing deltas are all non-negative and one is positive.
C8_HundredIffGainsOnly ==
  (fn = "RSI" /\ period >= 1) =>
    \A i \in period..(Len(data) - 1) :
      (At(result, i) = Num(100)) <=>
        (NoLoss(data, i - period + 1, i) /\ SomeGain(data, i - period + 1, i))

\* C8 as amended: at every index i >= period calculateRSI returns 100 exactly
\* when none of the period trailing deltas is negative, a window without any
\* change included; the 20 strictly increasing closes have RSI(14) = 100 at
\* the last index.
C8_HundredIffNoLoss ==
  (fn = "RSI" /\ period >= 1) =>
    /\ \A i \in period..(Len(data) - 1) :
         (At(result, i) = Num(100)) <=> NoLoss(data, i - period + 1, i)
    /\ (data = Ramp(100, 1, 10, 20) /\ period = RSIDefaultPeriod) =>
         At(result, 19) = Num(100)

\* a call that returns 100 for a window without any change and less than 100
\* for a window with a loss
C8_Witness ==
  /\ fn = "RSI" /\ period >= 2
  /\ \E i \in period..(Len(data) - 1) :
       /\ ~SomeGain(data, i - period + 1, i)
       /\ NoLoss(data, i - period + 1, i)
       /\ At(result, i) = Num(100)
  /\ \E i \in period..(Len(data) - 1) :
       /\ ~NoLoss(data, i - period + 1, i)
       /\ Lt(At(result, i), Num(100))

\* low <= close <= high on every bar
ValidBars(s) ==
  \A i \in 1..Len(s) : ~Lt(s[i].close, s[i].low) /\ ~Gt(s[i].close, s[i].high)

AllFifty(r) == \A i \in 1..Len(r) : r[i] = Seed50

\* C9 as stated: on a series of valid bars with a constant close, calculateKDJ
\* yields K = D = J = 50 at every index.
C9_ConstantCloseAllFifty ==
  (fn = "KDJ" /\ period >= 1 /\ ValidBars(data) /\ ConstantClose(data)) =>
    AllFifty(result)

\* on every window of p bars the range is zero or the close of the last bar
\* lies midway between the highest high and the lowest low
MidRange(s, p) ==
  \A i \in (p - 1)..(Len(s) - 1) :
    Add(MaxHigh(s, i - p + 1, i), MinLow(s, i - p + 1, i)) = Mul(Num(2), At(s, i).close)

\* C9 as amended: on a series of valid bars with a constant close c,
\* calculateKDJ yields K = D = J = 50 at every index provided every window of
\* period bars has zero range or has c midway between its highest high and
\* its lowest low (as when every bar has high = low = close).
C9_MidRangeAllFifty ==
  (fn = "KDJ" /\ period >= 1 /\ ValidBars(data) /\ ConstantClose(data)
     /\ MidRange(data, period)) =>
    AllFifty(result)

\* a call on a constant-close series that mixes a flat bar and a bar with a
\* range, with a full window, and yields 50 throughout
C9_Witness ==
  /\ fn = "KDJ" /\ period >= 2 /\ Len(data) > period
  /\ ValidBars(data) /\ ConstantClose(data) /\ MidRange(data, period)
  /\ \E i \in 1..Len(data) : data[i].high # data[i].low
  /\ \E i \in 1..Len(data) : data[i].high = data[i].low
  /\ AllFifty(result)

\* the entry of the report shown whose name is n (the report is shown)
EntryNamed(n) == CHOOSE e \in { indicators[i] : i \in 1..Len(indicators) } : e.name = n

\* the signal the RSI rule gives for a latest RSI value
RSIRule(latest) ==
  IF latest.k = "null" THEN "neutral"
  ELSE IF Lt(latest, Num(30)) THEN "buy"
  ELSE IF Gt(latest, Num(70)) THEN "sell"
  ELSE "neutral"

\* C10 as stated: once a non-empty series is loaded, the RSI entry of the
\* report has the signal buy when the latest RSI value is a number below 30
\* (0 included), sell when it is above 70, neutral for a number in [30, 70]
\* and neutral when the latest RSI is null.
C10_RSISignalFollowsRule ==
  klineData # <<>> =>
    EntryNamed("RSI").signal = RSIRule(Last(calculateRSI(klineData, RSIDefaultPeriod)))

\* the signal the MA-cross rule gives for the latest short and long averages
MARule(short, long) ==
  IF short.k = "null" \/ long.k = "null" THEN "neutral"
  ELSE IF Gt(short, long) THEN "buy"
  ELSE "sell"

\* C11 as stated: once a non-empty series is loaded, the signal of the MA5
\* entry (short = SMA5, long = SMA10) and of the MA10 entry (short = SMA10,
\* long = SMA20) is neutral exactly when one of the two latest averages is
\* null, and otherwise buy if short > long and sell if not, whatever numbers
\* the averages are.
C11_MASignalFollowsRule ==
  klineData # <<>> =>
    LET latestSMA5 == Last(calculateSMA(klineData, 5))
        latestSMA10 == Last(calculateSMA(klineData, 10))
        latestSMA20 == Last(calculateSMA(klineData, 20))
    IN  /\ EntryNamed("MA5").signal = MARule(latestSMA5, latestSMA10)
        /\ EntryNamed("MA10").signal = MARule(latestSMA10, latestSMA20)

\* the signal the KDJ rule gives for the field f (k or j) of the rows
\* calculateKDJ produced: the last value against the value before it
KDJRule(rows, f) ==
  IF Len(rows) < 2 THEN "neutral"
  ELSE IF Gt(rows[Len(rows)][f], rows[Len(rows) - 1][f]) THEN "buy"
  ELSE "sell"

\* C12 as stated: once a non-empty series is loaded, the KDJ.K signal (resp.
\* the KDJ.J signal) of the report is, for a series of at least two bars, buy
\* if the K (resp. J) value at the last index is strictly greater than the
\* value calculateKDJ produced at the index before it and sell otherwise;
\* for a one-bar series both signals are neutral.
C12_KDJSignalFollowsRule ==
  klineData # <<>> =>
    LET kdj == calculateKDJ(klineData, KDJDefaultPeriod)
    IN  /\ EntryNamed("KDJ.K").signal = KDJRule(kdj, "k")
        /\ EntryNamed("KDJ.J").signal = KDJRule(kdj, "j")

\* the names of the entries of a report, in the order of the report
ReportNames(r) == [i \in 1..Len(r) |-> r[i].name]

\* the indicators the component asks for
RequestedNames == <<"MA5", "MA10", "MA20", "RSI", "KDJ.K", "KDJ.D", "KDJ.J">>

\* C13 as stated: for every series a resolved request hands to the
\* component, the empty series and the series shorter than every lookback
\* window included, the report shown afterwards has an entry for every
\* requested indicator (none is omitted, nothing throws).
C13_ReportForEverySeries ==
  [][GetKLineResolve => ReportNames(indicators') = RequestedNames]_vars

\* the entry named n stands for insufficient history: its value is null and
\* the signal it carries, if any, is neutral
InsufficientEntry(n) ==
  /\ EntryNamed(n).value = Null
  /\ EntryNamed(n).signal \in {"neutral", "undefined"}

\* C14 as stated: once a non-empty series is loaded that is too short for an
\* indicator (fewer than 5, 10 or 20 bars for MA5, MA10, MA20, fewer than 15
\* bars for RSI(14), fewer than 9 bars for KDJ(9)), the entry of that
\* indicator carries the value null, not a number standing in for it, and
\* any signal it carries is neutral.
C14_ShortSeriesNullEntries ==
  klineData # <<>> =>
    /\ Len(klineData) < 5 => InsufficientEntry("MA5")
    /\ Len(klineData) < 10 => InsufficientEntry("MA10")
    /\ Len(klineData) < 20 => InsufficientEntry("MA20")
    /\ Len(klineData) < RSIDefaultPeriod + 1 => InsufficientEntry("RSI")
    /\ Len(klineData) < KDJDefaultPeriod =>
         /\ InsufficientEntry("KDJ.K")
         /\ InsufficientEntry("KDJ.D")
         /\ InsufficientEntry("KDJ.J")

C17_NonPositivePeriodRejected ==
  (calls >= 1 /\ fn \in {"SMA", "EMA", "RSI", "KDJ"}) => period >= 1

\* the bars of s are in strictly increasing order of date
IncreasingByDate(s) == \A i \in 1..(Len(s) - 1) : s[i].date < s[i + 1].date

\* C18 as stated: when the response was delivered oldest-first (the series
\* held is its reverse), the series the indicators are computed over is
\* strictly increasing by date and the bar the reported values are taken at,
\* the last one, is the bar with the greatest date.
C18_LatestIsMostRecent ==
  (klineData # <<>> /\ IncreasingByDate(Reverse(klineData))) =>
    /\ IncreasingByDate(klineData)
    /\ \A i \in 1..Len(klineData) : klineData[i].date <= Last(klineData).date

\* the requests that are live: issued and neither completed, failed nor
\* aborted
LiveRequests == { r \in 1..Len(requests) : requests[r] \in Live }

\* C19 as stated: after any sequence of handleSend calls interleaved with
\* fetch resolutions, stream ends, failures and abort rejections, at most one
\* chat stream request is live.
C19_AtMostOneLiveRequest == Cardinality(LiveRequests) <= 1

\* C20 as stated: whenever a chat stream request is live, isLoading is true
\* and streamingMessageId is the id of the assistant message of that request.
C20_LiveRequestIsShownLoading ==
  \A r \in LiveRequests : isLoading /\ streamingMessageId = r

\* C21 as stated: once every K-line request has settled (in any order, with
\* bars, with an empty list or with an error), the klineData held consists
\* of bars of the current code, and the indicators shown are the report of
\* that klineData, never a report left from the response for another code.
C21_ShownDataIsOfCurrentCode ==
  inflight = <<>> =>
    /\ \A i \in 1..Len(klineData) : klineData[i].code = code
    /\ indicators # <<>> =>
         (klineData # <<>> /\ indicators = newIndicators(klineData))

\* v lies in the interval (0, 100]
InZeroHundred(v) == IsNum(v) /\ Gt(v, Num(0)) /\ ~Gt(v, Num(100))

\* C24: on a series of valid bars and with a period of at least 1, every K and
\* every D of calculateKDJ lies in (0, 100], so that wherever a previous row
\* exists the recurrence continues from its K and D and not from the fallback 50.
C24_KAndDInZeroHundred ==
  (fn = "KDJ" /\ period >= 1 /\ ValidBars(data)) =>
    /\ \A i \in 1..Len(result) : InZeroHundred(result[i].k) /\ InZeroHundred(result[i].d)
    /\ \A i \in 1..(Len(result) - 1) :
         /\ PrevOr50(result, i, "k") = At(result, i - 1).k
         /\ PrevOr50(result, i, "d") = At(result, i - 1).d

\* a call on valid bars whose window is full over several rows, one of them
\* closing at the low of a window with a range, with K and D below 50
C24_Witness ==
  /\ fn = "KDJ" /\ period >= 1 /\ ValidBars(data) /\ Len(data) >= period + 2
  /\ \E i \in (period - 1)..(Len(data) - 1) : KDJRsv(data, period, i) = Num(0)
  /\ \E i \in 2..Len(result) :
       /\ Lt(result[i].k, Num(50)) /\ Lt(result[i].d, Num(50))
       /\ result[i].k # result[i - 1].k
  /\ \A i \in 1..Len(result) : InZeroHundred(result[i].k) /\ InZeroHundred(result[i].d)

\* the message of id n
MessageOf(n) == CHOOSE m \in { messages[i] : i \in 1..Len(messages) } : m.id = n

\* the contents request r has appended, in the order of arrival
ChunksOf(r) == [n \in 1..chunksRead[r] |-> Chunk(r, n)]

\* C23: the content of the assistant message of every request is the
\* sequence of the chunks of that request in arrival order, or the fixed error
\* text once that request has failed other than by abort; user messages keep
\* the text sent; there are exactly the two messages of every call.
C23_MessageBuiltFromOwnChunks ==
  /\ Len(messages) = 2 * Len(requests)
  /\ \A r \in 1..Len(requests) :
       /\ messages[2 * r - 1] = [id |-> 0 - r, role |-> "user", content |-> <<Chunk(r, 0)>>]
       /\ messages[2 * r].id = r /\ messages[2 * r].role = "assistant"
       /\ messages[2 * r].content =
            IF requests[r] = "failed" THEN ErrorText ELSE ChunksOf(r)

\* two streams overlap and each has appended chunks to its own message, next
\* to a request that was cancelled after a chunk
C23_Witness ==
  /\ \E q, r \in 1..Len(requests) :
       /\ q # r /\ requests[q] = "reading" /\ requests[r] = "reading"
       /\ chunksRead[q] = MaxChunks /\ chunksRead[r] >= 1
       /\ MessageOf(q).content = ChunksOf(q) /\ MessageOf(r).content = ChunksOf(r)
  /\ \E r \in 1..Len(requests) :
       requests[r] = "cancelled" /\ chunksRead[r] >= 1 /\ MessageOf(r).content = ChunksOf(r)

\* C25 as stated: starting from a stored list without duplicates, after any
\* sequence of handleStockSelect and removeStock calls, two of which may come
\* before the component renders again, watchedStocks holds no code twice.
C25_NoCodeTwice ==
  \A i, j \in 1..Len(watchedStocks) : i # j => watchedStocks[i] # watchedStocks[j]

\* the content field of a line of the body, empty where the line has none
ContentField(kind) ==
  CASE kind = "x" -> <<"x">>
    [] kind = "eacute" -> <<EAcute>>
    [] OTHER -> <<>>

\* the content fields of the lines of a body, concatenated in order
RECURSIVE ContentFields(_)
ContentFields(kinds) ==
  IF kinds = <<>> THEN <<>> ELSE ContentField(Head(kinds)) \o ContentFields(Tail(kinds))

\* C22: when the reader loop is left, the text appended to the assistant
\* message is the concatenation in order of the non-empty content fields of
\* the lines 'data: <JSON>' of the body, however the body was cut into the
\* values of read(), and nothing is left in the buffer.
C22_ContentIndependentOfChunks ==
  done => (content = ContentFields(sse) /\ buffer = <<>> /\ decoderPending = <<>>)

\* a body of two content lines read to its end, with a read that ended in
\* the middle of a line
C22_Witness ==
  /\ done /\ splitInLine
  /\ content = ContentFields(sse)
  /\ Len(content) = 2
  /\ \E i \in 1..Len(content) : content[i] = EAcute
====
